---- MODULE Spec2Model ----
(***************************************************************************)
(* A model of the Dijkstra server (src/unnamed/part_001): the accept loop  *)
(* of main, shortest_path, load_map, the indexed binary min-heap           *)
(* (q_set, q_clear, swap, heapify_up, heapify_down, push, pop), dijkstras  *)
(* and gen_path.                                                           *)
(*                                                                         *)
(* Representation.                                                         *)
(*  - The byte stream of a connection is the sequence inp of the 16-bit    *)
(*    fields that arrive before end of stream; read() of a field succeeds  *)
(*    while a whole field is left and is short afterwards.                 *)
(*  - The vertex array v has VERT_IDX_MAX records in the program; the      *)
(*    model keeps the records 0..MaxId, the only ones a frame of the model *)
(*    names.  A vertex's linked edge list (head, tail, next) is the        *)
(*    sequence edges.                                                      *)
(*  - The heap array q has VERT_IDX_MAX slots in the program; the model    *)
(*    keeps the slots 0..QCap.  QAt reads a slot; the slots the model does *)
(*    not keep are never written and hold the 0 of the initialiser.        *)
(*  - dist is a uint32_t.  A tentative distance is the cost of a simple    *)
(*    path, at most 65534 * 65535 < 2^32, so the sum at line 360 does not  *)
(*    wrap and is modelled as a plain sum.  lt and gt take uint16_t        *)
(*    parameters: the conversion at the call is modelled by U16.           *)
(***************************************************************************)
EXTENDS Integers, Sequences, FiniteSets, TLC

VARIABLES pc, inp, v, q, tail, start, end, rc, s, ei, dist, path, out, nconn

vars == <<pc, inp, v, q, tail, start, end, rc, s, ei, dist, path, out, nconn>>

---------------------------------------------------------------------------
(* Program constants *)

VERT_IDX_MAX == 65536

UINT16_MOD == 65536

U16(x) == x % UINT16_MOD

---------------------------------------------------------------------------
(* Bounds of the model *)

\* vertex ids of the exhaustively enumerated frames: 1..NumVerts
NumVerts == 3

\* edge records of the exhaustively enumerated frames: 0..MaxEdges
MaxEdges == 1

\* largest vertex id of any frame of the model
MaxId == 6

\* connections the model follows the server through
MaxConns == 2

VIds == 0..MaxId

QCap == MaxId + 1

QIdx == 0..QCap

---------------------------------------------------------------------------
(* Frames: the inputs a client may send *)

\* the smallest and the largest cost of the wire format
Costs == {1, 65535}

GenVerts == 1..NumVerts

EdgeRecs == GenVerts \X GenVerts \X Costs

Frame(a, b, n, recs) == [start |-> a, end |-> b, n |-> n, recs |-> recs]

\* every frame over GenVerts and Costs with at most MaxEdges records
GenFrames ==
  UNION { { Frame(a, b, k, r) : a \in GenVerts, b \in GenVerts,
                                 r \in [1..k -> EdgeRecs] } : k \in 0..MaxEdges }

\* the graph of the README's input example
ClassicRecs ==
  << <<1,2,14>>, <<1,3,9>>, <<1,4,7>>, <<2,5,9>>, <<3,2,2>>,
     <<3,6,11>>, <<4,3,10>>, <<4,6,15>>, <<6,5,6>> >>

ClassicFrames == { Frame(a, b, 9, ClassicRecs) : a \in 1..6, b \in 1..6 }

\* a single edge 1->2:5 asked in both directions, and a frame that declares
\* five records and carries two
ScenarioFrames ==
  { Frame(2, 1, 1, << <<1,2,5>> >>), Frame(1, 2, 1, << <<1,2,5>> >>),
    Frame(1, 5, 5, SubSeq(ClassicRecs, 1, 2)) }

\* four vertices, a fixed edge set with two routes to every vertex and a
\* cycle, under every assignment of the extreme costs: tentative distances
\* above 65535, ties, and tentative distances that are lowered
DiamondFrames ==
  { Frame(1, t, 6, << <<1,2,c[1]>>, <<1,3,c[2]>>, <<2,3,c[3]>>, <<3,2,c[4]>>,
                      <<2,4,c[5]>>, <<3,4,c[6]>> >>) :
      t \in 1..4, c \in [1..6 -> Costs] }

\* a self-loop on the start, two parallel edges, and a cycle back to the
\* start, under every assignment of the extreme costs; vertex 4 is named by
\* no edge
LoopyFrames ==
  { Frame(1, t, 5, << <<1,1,c[1]>>, <<1,2,c[2]>>, <<1,2,c[3]>>, <<2,1,c[4]>>,
                      <<2,3,c[5]>> >>) :
      t \in 1..4, c \in [1..5 -> Costs] }

\* two vertices discovered from the start, and a third discovered and then
\* lowered through two parallel edges of one vertex while the other is
\* still in the heap
LoweringFrames ==
  { Frame(1, t, 4, << <<1,2,c[1]>>, <<1,3,c[2]>>, <<2,4,c[3]>>, <<2,4,c[4]>> >>) :
      t \in 1..4, c \in [1..4 -> Costs] }

\* frames that carry one record more than they declare
OverlongFrames ==
  { Frame(1, t, 1, << <<1, 2, 5>>, <<1, t, 3>> >>) : t \in 2..3 }
    \cup { Frame(1, 2, 0, << <<1, 2, 5>> >>) }

Frames ==
  GenFrames \cup ClassicFrames \cup ScenarioFrames \cup DiamondFrames
    \cup LoopyFrames \cup LoweringFrames \cup OverlongFrames

RECURSIVE Flatten(_)
Flatten(recs) ==
  IF recs = <<>> THEN <<>>
  ELSE <<Head(recs)[1], Head(recs)[2], Head(recs)[3]>> \o Flatten(Tail(recs))

\* the fields of a frame in wire order
Words(f) == <<f.start, f.end, f.n>> \o Flatten(f.recs)

\* what arrives on a connection: frame f cut after k fields (whole when k
\* is the length of the frame)
Stream(f, k) == SubSeq(Words(f), 1, k)

---------------------------------------------------------------------------
(* Memory *)

ZeroVertex == [edges |-> <<>>, dist |-> 0, visited |-> 0, prev |-> 0, q_idx |-> 0]

ZeroV == [i \in VIds |-> ZeroVertex]

ZeroQ == [i \in QIdx |-> 0]

\* storage that was released or never initialised holds anything; two
\* representatives: all zero, and every field set
Garbage == {"zero", "set"}

SetVertex ==
  [edges |-> << [dest |-> 1, cost |-> 1] >>, dist |-> 1, visited |-> 1,
   prev |-> 1, q_idx |-> 1]

GarbageV(g) == IF g = "zero" THEN ZeroV ELSE [i \in VIds |-> SetVertex]

GarbageQ(g) == IF g = "zero" THEN ZeroQ ELSE [i \in QIdx |-> 1]

GarbageTail(g) == IF g = "zero" THEN 0 ELSE 1

\* shortest_path without its memset: v is what malloc returned
Memset_skipped(mem) == mem

\* memset(v, 0, sz)
Memset(mem) == ZeroV

\* uint16_t q[VERT_IDX_MAX] = {0}
QInit(mem) == ZeroQ

QAt(qq, i) == IF i \in DOMAIN qq THEN qq[i] ELSE 0

Null == [kind |-> "null", verts |-> <<>>, dist |-> 0]

---------------------------------------------------------------------------
(* load_map *)

\* the new edge node linked in front of vertex i's list, tail left on the
\* old last node
AppendNode_front(vv, i) ==
  [vv EXCEPT ![i].edges = << [dest |-> 0, cost |-> 0] >> \o @]

\* the new edge node stored as head and tail whether or not the list is
\* empty: the nodes that were there are no longer linked
AppendNode_overwrite(vv, i) ==
  [vv EXCEPT ![i].edges = << [dest |-> 0, cost |-> 0] >>]

\* a new edge node after memset, linked at the tail of vertex i's list
AppendNode(vv, i) ==
  [vv EXCEPT ![i].edges = Append(@, [dest |-> 0, cost |-> 0])]

SetDest(vv, i, d) == [vv EXCEPT ![i].edges[Len(vv[i].edges)].dest = d]

\* the cost read into the vertex's dist and not into the node
SetCost_asdist(vv, i, c) == [vv EXCEPT ![i].dist = c]

SetCost(vv, i, c) == [vv EXCEPT ![i].edges[Len(vv[i].edges)].cost = c]

\* the loop of load_map from record n on; pos is the next field of the stream
RECURSIVE LoadEdges(_, _, _, _, _)
LoadEdges(vv, in, pos, n, num) ==
  IF n >= num THEN [rc |-> 0, v |-> vv]
  ELSE IF Len(in) < pos THEN [rc |-> -1, v |-> vv]
  ELSE LET i  == in[pos]
           v1 == AppendNode(vv, i)
       IN IF Len(in) < pos + 1 THEN [rc |-> -1, v |-> v1]
          ELSE LET v2 == SetDest(v1, i, in[pos + 1])
               IN IF Len(in) < pos + 2 THEN [rc |-> -1, v |-> v2]
                  ELSE LoadEdges(SetCost(v2, i, in[pos + 2]), in, pos + 3,
                                 n + 1, num)

\* load_map with the results of read() unchecked: a field that did not
\* arrive leaves the zero that was there
load_map_unchecked(vv, in, start0, end0) ==
  LET field(k) == IF k <= Len(in) THEN in[k] ELSE 0
      num      == field(3)
      padded   == [k \in 1..(3 + 3 * num) |-> field(k)]
      r        == LoadEdges(vv, padded, 4, 0, num)
  IN [rc |-> r.rc, v |-> r.v, start |-> field(1), end |-> field(2)]

\* start0 and end0 are the caller's values of *start and *end
load_map(vv, in, start0, end0) ==
  IF Len(in) < 1 THEN [rc |-> -1, v |-> vv, start |-> start0, end |-> end0]
  ELSE IF Len(in) < 2 THEN [rc |-> -1, v |-> vv, start |-> in[1], end |-> end0]
  ELSE IF Len(in) < 3 THEN [rc |-> -1, v |-> vv, start |-> in[1], end |-> in[2]]
  ELSE LET r == LoadEdges(vv, in, 4, 0, in[3])
       IN [rc |-> r.rc, v |-> r.v, start |-> in[1], end |-> in[2]]

---------------------------------------------------------------------------
(* The comparators and the heap.  A heap is [v, q, tail].                  *)

lt(a, b) ==
  LET a16 == U16(a)
      b16 == U16(b)
  IN a16 # 0 /\ (a16 < b16 \/ b16 = 0)

gt(a, b) ==
  LET a16 == U16(a)
      b16 == U16(b)
  IN b16 # 0 /\ (a16 > b16 \/ a16 = 0)

q_set(h, q_i, v_i) ==
  [h EXCEPT !.q[q_i] = v_i, !.v[v_i].q_idx = q_i]

\* q_clear that clears the vertex's q_idx and leaves the slot
q_clear_keepslot(h, q_i) ==
  [h EXCEPT !.v[QAt(h.q, q_i)].q_idx = 0]

q_clear(h, q_i) ==
  [h EXCEPT !.v[QAt(h.q, q_i)].q_idx = 0, !.q[q_i] = 0]

\* swap that exchanges the slots and leaves the q_idx of the vertices
swap_noindex(h, a, b) ==
  [h EXCEPT !.q[a] = QAt(h.q, b), !.q[b] = QAt(h.q, a)]

swap(h, a, b) ==
  LET sv == QAt(h.q, a)
  IN q_set(q_set(h, a, QAt(h.q, b)), b, sv)

\* the distance of the vertex in slot i
DistAt(h, i) == h.v[QAt(h.q, i)].dist

RECURSIVE heapify_up(_, _)
heapify_up(h, i) ==
  LET p    == i \div 2
      stop == (i = 1) \/ ~lt(DistAt(h, i), DistAt(h, p))
  IN IF stop THEN h ELSE heapify_up(swap(h, i, p), p)

\* the bottom test on the first child alone
ReachedBottom_c1only(c1, c2) == c1 > VERT_IDX_MAX

\* c1 > VERT_IDX_MAX || c2 > VERT_IDX_MAX
ReachedBottom(c1, c2) == c1 > VERT_IDX_MAX \/ c2 > VERT_IDX_MAX

\* the child slots of q one pass of heapify_down at position i reads
ChildSlotsRead(i) ==
  IF ReachedBottom(2 * i, 2 * i + 1) THEN {} ELSE {2 * i, 2 * i + 1}

RECURSIVE heapify_down(_, _)
heapify_down(h, i) ==
  LET c1   == 2 * i
      c2   == 2 * i + 1
      stop == ReachedBottom(c1, c2)
              \/ ~(gt(DistAt(h, i), DistAt(h, c1)) \/ gt(DistAt(h, i), DistAt(h, c2)))
  IN IF stop THEN h
     ELSE LET sc == IF lt(DistAt(h, c1), DistAt(h, c2)) THEN c1 ELSE c2
          IN heapify_down(swap(h, i, sc), sc)

push(h, new) ==
  LET t1 == U16(h.tail + 1)
  IN heapify_up(q_set([h EXCEPT !.tail = t1], t1, new), t1)

pop(h) ==
  LET h1 == q_clear(swap(h, 1, h.tail), h.tail)
  IN heapify_down([h1 EXCEPT !.tail = U16(h.tail - 1)], 1)

---------------------------------------------------------------------------
(* The program state as a record, and each step as a function on it        *)

Cur ==
  [pc |-> pc, inp |-> inp, v |-> v, q |-> q, tail |-> tail, start |-> start,
   end |-> end, rc |-> rc, s |-> s, ei |-> ei, dist |-> dist, path |-> path,
   out |-> out, nconn |-> nconn]

Becomes(st) ==
  /\ pc' = st.pc /\ inp' = st.inp /\ v' = st.v /\ q' = st.q
  /\ tail' = st.tail /\ start' = st.start /\ end' = st.end /\ rc' = st.rc
  /\ s' = st.s /\ ei' = st.ei /\ dist' = st.dist /\ path' = st.path
  /\ out' = st.out /\ nconn' = st.nconn

Is(st) ==
  /\ pc = st.pc /\ inp = st.inp /\ v = st.v /\ q = st.q
  /\ tail = st.tail /\ start = st.start /\ end = st.end /\ rc = st.rc
  /\ s = st.s /\ ei = st.ei /\ dist = st.dist /\ path = st.path
  /\ out = st.out /\ nconn = st.nconn

HeapOf(st) == [v |-> st.v, q |-> st.q, tail |-> st.tail]

WithHeap(st, h) == [st EXCEPT !.v = h.v, !.q = h.q, !.tail = h.tail]

\* the process listening, before the first accept; g is what the storage
\* that malloc and the stack will hand out holds
Listening(g) ==
  [pc |-> "accept", inp |-> <<>>, v |-> GarbageV(g), q |-> GarbageQ(g),
   tail |-> GarbageTail(g), start |-> 0, end |-> 0, rc |-> -1, s |-> 0,
   ei |-> 0, dist |-> 0, path |-> Null, out |-> <<>>, nconn |-> 0]

\* main: accept returns a connection that will deliver stream
AcceptF(st, stream) ==
  [st EXCEPT !.pc = "shortest_path", !.inp = stream, !.out = <<>>,
             !.nconn = st.nconn + 1]

\* shortest_path up to the call of load_map and its result
LoadF(st) ==
  LET r == load_map(Memset(st.v), st.inp, 0, 0)
  IN [st EXCEPT !.v = r.v, !.start = r.start, !.end = r.end, !.rc = r.rc,
                !.path = Null, !.dist = 0,
                !.pc = IF r.rc = 0 THEN "dijkstras" ELSE "cleanup"]

\* dijkstras: the initialisers and the push of start
DijkstrasInitF(st) ==
  LET h0 == [v |-> st.v, q |-> QInit(st.q), tail |-> 0]
  IN [WithHeap(st, push(h0, st.start)) EXCEPT !.pc = "loop"]

\* the loop guard fails: return v[end].dist
LoopExitF(st) == [st EXCEPT !.pc = "gen_path", !.dist = st.v[st.end].dist]

\* the root is end: break, return v[end].dist
LoopBreakF(st) == [st EXCEPT !.pc = "gen_path", !.dist = st.v[st.end].dist]

\* the loop body without its pop: the root is marked and stays the root
PopMinF_nopop(st) ==
  LET sv == st.q[1]
      v1 == [st.v EXCEPT ![sv].visited = 1]
  IN [st EXCEPT !.v = v1, !.s = sv, !.ei = 1,
                !.pc = IF v1[sv].edges = <<>> THEN "loop" ELSE "relax"]

\* the loop body without v[s].visited = 1
PopMinF_unmarked(st) ==
  LET sv == st.q[1]
      h1 == pop(HeapOf(st))
  IN [WithHeap(st, h1) EXCEPT
        !.s = sv, !.ei = 1,
        !.pc = IF h1.v[sv].edges = <<>> THEN "loop" ELSE "relax"]

\* s = q[1]; pop; v[s].visited = 1; e = v[s].head
PopMinF(st) ==
  LET sv == st.q[1]
      h1 == pop(HeapOf(st))
      v1 == [h1.v EXCEPT ![sv].visited = 1]
  IN [WithHeap(st, [h1 EXCEPT !.v = v1]) EXCEPT
        !.s = sv, !.ei = 1,
        !.pc = IF v1[sv].edges = <<>> THEN "loop" ELSE "relax"]

\* uint32_t dist = v[s].dist + e->cost, with the Prim-style slip of taking
\* the edge cost alone
Candidate_costonly(st, e) == e.cost

\* the sum kept in 16 bits, the width of a cost
Candidate_wraps16(st, e) == U16(st.v[st.s].dist + e.cost)

\* uint32_t dist = v[s].dist + e->cost
Candidate(st, e) == st.v[st.s].dist + e.cost

\* the test of line 362 without its "dist < cur" half: a vertex once
\* discovered is never improved
Improves_firstonly(st, e, nd) ==
  0 = st.v[e.dest].visited /\ 0 = st.v[e.dest].dist

\* the test of line 362 without its visited half
Improves_novisited(st, e, nd) ==
  LET cur == st.v[e.dest].dist
  IN 0 = cur \/ nd < cur

\* 0 == v[e->dest].visited && (0 == cur || dist < cur)
Improves(st, e, nd) ==
  LET cur == st.v[e.dest].dist
  IN 0 = st.v[e.dest].visited /\ (0 = cur \/ nd < cur)

\* one pass of the inner loop on edge ei of s
RelaxF(st) ==
  LET e     == st.v[st.s].edges[st.ei]
      nd    == Candidate(st, e)
      h0    == HeapOf(st)
      h1    == [h0 EXCEPT !.v[e.dest].dist = nd, !.v[e.dest].prev = st.s]
      h2    == IF Improves(st, e, nd)
               THEN IF 0 = h1.v[e.dest].q_idx THEN push(h1, e.dest)
                    ELSE heapify_up(h1, h1.v[e.dest].q_idx)
               ELSE h0
      last  == st.ei >= Len(st.v[st.s].edges)
  IN [WithHeap(st, h2) EXCEPT !.ei = st.ei + 1,
                              !.pc = IF last THEN "loop" ELSE "relax"]

---------------------------------------------------------------------------
(* gen_path *)

\* the do-while with the test for the start ahead of the sprintf: the start
\* is not written
RECURSIVE Backtrack_dropsstart(_, _, _, _, _)
Backtrack_dropsstart(vv, st0, i, acc, slots) ==
  IF slots = 0 THEN [i |-> i, verts |-> acc, overrun |-> TRUE]
  ELSE IF st0 = i THEN [i |-> i, verts |-> acc, overrun |-> FALSE]
  ELSE LET acc1 == <<i>> \o acc
       IN IF vv[i].prev = 0
          THEN [i |-> 0, verts |-> acc1, overrun |-> FALSE]
          ELSE Backtrack_dropsstart(vv, st0, vv[i].prev, acc1, slots - 1)

\* the do-while of gen_path from vertex i; acc is what is written so far,
\* slots is how many 8-byte slots of the buffer are left
RECURSIVE Backtrack(_, _, _, _, _)
Backtrack(vv, st0, i, acc, slots) ==
  IF slots = 0 THEN [i |-> i, verts |-> acc, overrun |-> TRUE]
  ELSE LET acc1 == <<i>> \o acc
       IN IF st0 = i THEN [i |-> i, verts |-> acc1, overrun |-> FALSE]
          ELSE IF vv[i].prev = 0
               THEN [i |-> 0, verts |-> acc1, overrun |-> FALSE]
               ELSE Backtrack(vv, st0, vv[i].prev, acc1, slots - 1)

gen_path(vv, st0, en0) ==
  IF vv[en0].prev = 0 THEN Null
  ELSE LET b == Backtrack(vv, st0, en0, <<>>, MaxId + 2)
       IN IF b.overrun THEN [kind |-> "overrun", verts |-> b.verts, dist |-> 0]
          ELSE IF st0 # b.i THEN Null
          ELSE [kind |-> "path", verts |-> b.verts, dist |-> vv[en0].dist]

NoPath(st0, en0) == [kind |-> "nopath", verts |-> <<st0, en0>>, dist |-> 0]

\* shortest_path after dijkstras: gen_path, and the message when it is NULL
GenPathF(st) ==
  LET p == gen_path(st.v, st.start, st.end)
  IN [st EXCEPT !.path = IF p = Null THEN NoPath(st.start, st.end) ELSE p,
                !.pc = "cleanup"]

\* shortest_path's cleanup: the edge nodes and v are freed, the frames of
\* shortest_path and dijkstras are gone; g is what that storage holds next
CleanupF(st, g) ==
  [st EXCEPT !.v = GarbageV(g), !.q = GarbageQ(g), !.tail = GarbageTail(g),
             !.s = 0, !.ei = 0, !.pc = "main"]

\* main: path is NULL, "Shortest path error", return -1
MainExitF(st) == [st EXCEPT !.pc = "exited"]

\* main without its write: the connection is closed unanswered
MainWriteF_nowrite(st) == [st EXCEPT !.pc = "close"]

\* main: write(cli_fd, path, ...)
MainWriteF(st) == [st EXCEPT !.out = Append(st.out, st.path), !.pc = "close"]

\* main: free(path); close(cli_fd); back to accept
MainCloseF(st) ==
  [st EXCEPT !.pc = "accept", !.inp = <<>>, !.out = <<>>, !.path = Null,
             !.start = 0, !.end = 0, !.rc = -1, !.dist = 0]

---------------------------------------------------------------------------
(* The server *)

Init == \E g \in Garbage : Is(Listening(g))

CanAccept(st) == st.pc = "accept" /\ st.nconn < MaxConns

CanLoad(st) == st.pc = "shortest_path"

CanDijkstrasInit(st) == st.pc = "dijkstras"

CanLoopExit(st) == st.pc = "loop" /\ ~(0 # st.q[1])

CanLoopBreak(st) == st.pc = "loop" /\ 0 # st.q[1] /\ st.q[1] = st.end

CanPopMin(st) == st.pc = "loop" /\ 0 # st.q[1] /\ st.q[1] # st.end

CanRelax(st) == st.pc = "relax"

CanGenPath(st) == st.pc = "gen_path"

CanCleanup(st) == st.pc = "cleanup"

CanMainExit(st) == st.pc = "main" /\ st.path = Null

CanMainWrite(st) == st.pc = "main" /\ st.path # Null

CanMainClose(st) == st.pc = "close"

Accept ==
  /\ CanAccept(Cur)
  /\ \E f \in Frames : \E k \in 0..Len(Words(f)) :
       Becomes(AcceptF(Cur, Stream(f, k)))

Load == CanLoad(Cur) /\ Becomes(LoadF(Cur))

DijkstrasInit == CanDijkstrasInit(Cur) /\ Becomes(DijkstrasInitF(Cur))

LoopExit == CanLoopExit(Cur) /\ Becomes(LoopExitF(Cur))

LoopBreak == CanLoopBreak(Cur) /\ Becomes(LoopBreakF(Cur))

PopMin == CanPopMin(Cur) /\ Becomes(PopMinF(Cur))

Relax == CanRelax(Cur) /\ Becomes(RelaxF(Cur))

GenPath == CanGenPath(Cur) /\ Becomes(GenPathF(Cur))

Cleanup == CanCleanup(Cur) /\ \E g \in Garbage : Becomes(CleanupF(Cur, g))

MainExit == CanMainExit(Cur) /\ Becomes(MainExitF(Cur))

MainWrite == CanMainWrite(Cur) /\ Becomes(MainWriteF(Cur))

MainClose == CanMainClose(Cur) /\ Becomes(MainCloseF(Cur))

Next ==
  \/ Accept
  \/ Load
  \/ DijkstrasInit
  \/ LoopExit
  \/ LoopBreak
  \/ PopMin
  \/ Relax
  \/ GenPath
  \/ Cleanup
  \/ MainExit
  \/ MainWrite
  \/ MainClose

Spec == Init /\ [][Next]_vars

\* some step of serving the accepted connection can be taken
CanServe(st) ==
  \/ CanLoad(st)
  \/ CanDijkstrasInit(st)
  \/ CanLoopExit(st)
  \/ CanLoopBreak(st)
  \/ CanPopMin(st)
  \/ CanRelax(st)
  \/ CanGenPath(st)
  \/ CanCleanup(st)
  \/ CanMainExit(st)
  \/ CanMainWrite(st)
  \/ CanMainClose(st)

---------------------------------------------------------------------------
(* The heap driven directly: push, pop and heapify_up applied, in any      *)
(* order, to vertices with any distances, as a caller other than dijkstras *)
(* may apply them                                                          *)

\* vertices 1..HeapVerts take part
HeapVerts == 3

HeapIds == 1..HeapVerts

\* the distances the vertices are given
DistVals == {1, 2, 3}

HeapPcs == {"heap", "heap_pushed", "heap_popped", "heap_lowered"}

\* the heap is one that push, pop and heapify_up built: tail has not wrapped
HeapUsable(st) == st.pc \in HeapPcs /\ st.tail <= HeapVerts

HeapStart(d) ==
  [Listening("zero") EXCEPT
     !.pc = "heap",
     !.v = [i \in VIds |-> IF i \in HeapIds THEN [ZeroVertex EXCEPT !.dist = d[i]]
                           ELSE ZeroVertex]]

HeapPushF(st, id) == [WithHeap(st, push(HeapOf(st), id)) EXCEPT !.pc = "heap_pushed"]

HeapPopF(st) == [WithHeap(st, pop(HeapOf(st))) EXCEPT !.pc = "heap_popped"]

\* the caller lowers v[id].dist to d and calls heapify_up on v[id].q_idx
HeapLowerF(st, id, d) ==
  LET h1 == [HeapOf(st) EXCEPT !.v[id].dist = d]
  IN [WithHeap(st, heapify_up(h1, h1.v[id].q_idx)) EXCEPT !.pc = "heap_lowered"]

HeapInit == \E d \in [HeapIds -> DistVals] : Is(HeapStart(d))

HeapPush ==
  /\ HeapUsable(Cur)
  /\ \E id \in HeapIds : v[id].q_idx = 0 /\ Becomes(HeapPushF(Cur, id))

HeapPop == HeapUsable(Cur) /\ Becomes(HeapPopF(Cur))

HeapLower ==
  /\ HeapUsable(Cur)
  /\ \E id \in HeapIds : \E d \in DistVals :
       v[id].q_idx # 0 /\ d < v[id].dist /\ Becomes(HeapLowerF(Cur, id, d))

HeapNext ==
  \/ HeapPush
  \/ HeapPop
  \/ HeapLower

SpecHeap == HeapInit /\ [][HeapNext]_vars

---------------------------------------------------------------------------
(* One connection served from accept to the close or the exit, as a        *)
(* function: the steps above applied in program order                      *)

Served(st) == st.pc \in {"close", "exited"}

ProgramStep(st) ==
  CASE CanLoad(st)          -> LoadF(st)
    [] CanDijkstrasInit(st) -> DijkstrasInitF(st)
    [] CanLoopExit(st)      -> LoopExitF(st)
    [] CanLoopBreak(st)     -> LoopBreakF(st)
    [] CanPopMin(st)        -> PopMinF(st)
    [] CanRelax(st)         -> RelaxF(st)
    [] CanGenPath(st)       -> GenPathF(st)
    [] CanCleanup(st)       -> CleanupF(st, "zero")
    [] CanMainExit(st)      -> MainExitF(st)
    [] CanMainWrite(st)     -> MainWriteF(st)

RECURSIVE RunToServed(_)
RunToServed(st) == IF Served(st) THEN st ELSE RunToServed(ProgramStep(st))

\* the frame served alone, as the first request of a process whose storage
\* starts zeroed
ServedAlone(stream) == RunToServed(AcceptF(Listening("zero"), stream))

---------------------------------------------------------------------------
(* The request as the client sent it, read off the stream independently of *)
(* load_map, and a reference for the cost of a cheapest path               *)

\* every declared field arrived
Complete(in) == Len(in) >= 3 /\ Len(in) >= 3 + 3 * in[3]

ReqStart(in) == in[1]

ReqEnd(in) == in[2]

\* the edge records <<source, destination, cost>> of a complete stream
ReqEdges(in) == { <<in[1 + 3 * k], in[2 + 3 * k], in[3 + 3 * k]>> : k \in 1..in[3] }

Ids == 1..MaxId

Unreached == 0 - 1

SetMin(S) == CHOOSE x \in S : \A y \in S : x <= y

\* one round of Bellman-Ford over the edge set E
Round(D, E) ==
  [u \in Ids |->
     LET cands == { D[e[1]] + e[3] : e \in { x \in E : x[2] = u /\ D[x[1]] # Unreached } }
                  \cup (IF D[u] # Unreached THEN {D[u]} ELSE {})
     IN IF cands = {} THEN Unreached ELSE SetMin(cands)]

RECURSIVE BellmanFord(_, _, _)
BellmanFord(D, E, k) == IF k = 0 THEN D ELSE BellmanFord(Round(D, E), E, k - 1)

\* the cost of a cheapest directed path from the start to each vertex, or
\* Unreached
MinCost(in) ==
  BellmanFord([u \in Ids |-> IF u = ReqStart(in) THEN 0 ELSE Unreached],
              ReqEdges(in), MaxId)

Reachable(in) == MinCost(in)[ReqEnd(in)] # Unreached

\* the totals a walk along the vertex sequence vs can cost, over every
\* choice among parallel edges
RECURSIVE WalkCosts(_, _)
WalkCosts(vs, E) ==
  IF Len(vs) <= 1 THEN {0}
  ELSE { e[3] + r : e \in { x \in E : x[1] = vs[1] /\ x[2] = vs[2] },
                     r \in WalkCosts(Tail(vs), E) }

PathResponse(vs, d) == [kind |-> "path", verts |-> vs, dist |-> d]

\* a dijkstras run is under way or has just returned
InRun == pc \in {"loop", "relax", "gen_path"}

---------------------------------------------------------------------------
(* C1 *)

\* C1: when the target is reachable from the start, the distance dijkstras
\* returns for it is the minimum total cost over all directed paths from
\* the start to the target.
C1_ReturnedDistanceIsMinimum ==
  (pc = "gen_path" /\ Reachable(inp)) => dist = MinCost(inp)[ReqEnd(inp)]

---------------------------------------------------------------------------
(* C2 *)

\* C2: a request whose start and target are the same vertex s is answered
\* with the one-vertex path "s (0)", never with "No path from ...".
C2_SameVertexGivesTrivialPath ==
  (pc = "close" /\ ReqStart(inp) = ReqEnd(inp))
     => out = << PathResponse(<<ReqStart(inp)>>, 0) >>

---------------------------------------------------------------------------
(* C3 *)

\* C3: for a decoded request the response is the "No path" message exactly
\* when the target is not reachable from the start along outgoing edges.
C3_NoPathIffUnreachable ==
  pc = "close" => (out[1].kind = "nopath" <=> ~Reachable(inp))

---------------------------------------------------------------------------
(* C4 *)

\* a vertex the run has reached from another one
Discovered(u) == v[u].prev # 0

---------------------------------------------------------------------------
(* C5 *)

\* C5: when the stream ends before the header or a declared edge record is
\* fully read, load_map returns -1 and nothing is written to the connection.
C5_TruncatedStreamFailsSilently ==
  (~Complete(inp) /\ pc \notin {"accept", "shortest_path"}) =>
     /\ rc = -1
     /\ out = <<>>
     /\ pc \in {"cleanup", "main", "exited"}

\* five records declared, two delivered, and the server is past main's check
C5_Witness ==
  /\ pc = "exited"
  /\ inp = <<1, 5, 5, 1, 2, 14, 1, 3, 9>>
  /\ rc = -1

---------------------------------------------------------------------------
(* C6 *)

\* C6: no state survives across requests: whatever was served before, a
\* request is answered (or fails) as the same frame would be if it were
\* served alone as the very first request.
C6_ResponseIndependentOfHistory ==
  Served(Cur) =>
    /\ pc = ServedAlone(inp).pc
    /\ out = ServedAlone(inp).out

\* the second connection of the process has been answered with a path
C6_Witness ==
  /\ pc = "close"
  /\ nconn = 2
  /\ out # <<>> /\ out[1].kind = "path" /\ Len(out[1].verts) >= 3

---------------------------------------------------------------------------
(* C7 *)

ClassicStream(t) == Words(Frame(1, t, 9, ClassicRecs))

\* C7: on the README's graph with start 1 the response for target 5 is
\* "1->3->2->5 (20)" and the response for target 2 is "1->3->2 (11)".
C7_ClassicGraphResponses ==
  /\ (pc = "close" /\ inp = ClassicStream(5))
        => out = << PathResponse(<<1, 3, 2, 5>>, 20) >>
  /\ (pc = "close" /\ inp = ClassicStream(2))
        => out = << PathResponse(<<1, 3, 2>>, 11) >>

\* the response for target 2 has been written
C7_Witness ==
  /\ pc = "close"
  /\ inp = ClassicStream(2)
  /\ out # <<>>

---------------------------------------------------------------------------
(* C8 *)

\* the sentinel-aware order on distances as they are: a is greater than b
RefGt(a, b) == b # 0 /\ (a > b \/ a = 0)

\* C8: after every push, pop and decrease-key of a dijkstras run, for every
\* slot i in 2..tail the vertex in slot i/2 is not greater than the vertex
\* in slot i under the sentinel-aware order on their tentative distances.
C8_HeapOrderedByDistance ==
  pc \in {"loop", "relax"} =>
    \A i \in 2..tail : ~RefGt(v[q[i \div 2]].dist, v[q[i]].dist)

---------------------------------------------------------------------------
(* C9 *)

\* the distance values the vertex records hold
DistValues == { v[i].dist : i \in VIds }

\* C9: for all distance values a and b, lt(a,b) is false when a is 0, true
\* when a is non-zero and b is 0, equal to a < b when both are non-zero, and
\* gt(a,b) holds exactly when lt(b,a) holds.
C9_ComparatorsAreSentinelOrder ==
  InRun =>
    \A a \in DistValues : \A b \in DistValues :
      /\ a = 0 => ~lt(a, b)
      /\ (a # 0 /\ b = 0) => lt(a, b)
      /\ (a # 0 /\ b # 0) => (lt(a, b) <=> a < b)
      /\ gt(a, b) <=> lt(b, a)

---------------------------------------------------------------------------
(* C10 *)

\* C10: extract-min on an empty heap (tail = 0) fails and leaves the heap
\* array, the tail index and every vertex's heap position unchanged.
C10_PopOnEmptyHeapChangesNothing ==
  [][ (HeapUsable(Cur) /\ tail = 0 /\ pc' = "heap_popped")
        => /\ q' = q
           /\ tail' = tail
           /\ \A i \in VIds : v'[i].q_idx = v[i].q_idx ]_vars

---------------------------------------------------------------------------
(* C11 *)

\* where the process is in serving a connection, in program order
PcRank(p) ==
  CASE p = "shortest_path" -> 1
    [] p = "dijkstras"     -> 2
    [] p = "loop"          -> 3
    [] p = "relax"         -> 3
    [] p = "gen_path"      -> 4
    [] p = "cleanup"       -> 5
    [] p = "main"          -> 6
    [] p = "close"         -> 7
    [] p = "accept"        -> 8
    [] p = "exited"        -> 9

---------------------------------------------------------------------------
(* C12 *)

\* C12: a truncated frame fails its own connection only: the process does
\* not end on it, and from main's check of the result it goes on to close
\* the connection and accept the next one.
C12_TruncatedFrameLeavesServiceRunning ==
  /\ [](~Complete(inp) => pc # "exited")
  /\ [][ (pc = "main" /\ ~Complete(inp)) => pc' \in {"close", "accept"} ]_vars

---------------------------------------------------------------------------
(* C13 *)

\* C13: in every state of a dijkstras run each vertex whose visited flag is
\* set has the minimum path cost from the start as its dist, and when the
\* loop stops with the target at the heap root the target's dist is the
\* minimum path cost too.
C13_FinalizedDistanceIsMinimum ==
  /\ InRun => \A u \in Ids : v[u].visited = 1 => v[u].dist = MinCost(inp)[u]
  /\ (pc = "gen_path" /\ q[1] = end) => v[end].dist = MinCost(inp)[end]

---------------------------------------------------------------------------
(* C14 *)

InLoop == pc \in {"loop", "relax"}

\* the vertices not yet marked visited
Unvisited(vv) == Cardinality({ u \in Ids : vv[u].visited = 0 })

\* the edges of s the inner loop has still to look at
EdgesLeft(p, vv, sv, e) == IF p = "relax" THEN Len(vv[sv].edges) + 1 - e ELSE 0

\* C14: a dijkstras run ends, on graphs with cycles, self-loops and
\* parallel edges too: while it is in its loop a step can be taken, and
\* every step either leaves the loop or lowers the pair (unvisited
\* vertices, edges left of the current vertex) in the lexicographic order;
\* it ends with the target at the heap root or with the heap empty, and in
\* the latter case the target's dist and prev are still 0.
C14_RunTerminatesAtTargetOrEmptyHeap ==
  /\ [](InLoop => CanServe(Cur))
  /\ [][ InLoop =>
           \/ pc' = "gen_path"
           \/ /\ pc' \in {"loop", "relax"}
              /\ \/ Unvisited(v') < Unvisited(v)
                 \/ /\ Unvisited(v') = Unvisited(v)
                    /\ EdgesLeft(pc', v', s', ei') < EdgesLeft(pc, v, s, ei)
       ]_vars
  /\ [](pc = "gen_path" =>
          \/ q[1] # 0 /\ q[1] = end
          \/ /\ q[1] = 0 /\ tail = 0
             /\ v[end].dist = 0 /\ v[end].prev = 0)

\* the run over the graph with the self-loop, the parallel edges and the
\* cycle has popped its three vertices and ended with the heap empty
C14_Witness ==
  /\ pc = "gen_path"
  /\ q[1] = 0
  /\ end = 4
  /\ Len(v[1].edges) = 3
  /\ \A u \in 1..3 : v[u].visited = 1

---------------------------------------------------------------------------
(* C15 *)

\* 0 Undiscovered, 1 Frontier, 2 Finalized; 3 is a record that is none of
\* them
VertexState(r) ==
  CASE r.visited = 1 /\ r.q_idx = 0                -> 2
    [] r.visited = 0 /\ r.q_idx # 0                -> 1
    [] r.visited = 0 /\ r.q_idx = 0 /\ r.dist = 0  -> 0
    [] OTHER                                       -> 3

\* C15: during a dijkstras run every vertex is Undiscovered, Frontier or
\* Finalized, and a step leaves its state or moves it one forward, from
\* Undiscovered to Frontier (its one push) or from Frontier to Finalized
\* (its one pop); the run starts by pushing the start.
C15_VertexStatesMoveForward ==
  /\ [](InRun => \A u \in Ids : VertexState(v[u]) # 3)
  /\ [][ (InLoop \/ pc = "dijkstras") =>
           \A u \in Ids :
             \/ VertexState(v'[u]) = VertexState(v[u])
             \/ VertexState(v'[u]) = VertexState(v[u]) + 1 /\ VertexState(v[u]) < 2
       ]_vars

\* on the graph with the cycle back to the start: the start is Finalized,
\* vertex 2 was pushed, popped and is Finalized, its edge back to the start
\* has been passed, and vertex 3 is in the heap
C15_Witness ==
  /\ pc = "loop"
  /\ Len(v[1].edges) = 3
  /\ VertexState(v[1]) = 2
  /\ VertexState(v[2]) = 2
  /\ VertexState(v[3]) = 1

---------------------------------------------------------------------------
(* C16 *)

\* C16: once a vertex is visited, no later step of the run changes its
\* dist or its prev, its q_idx stays 0 and no heap slot holds it, also when
\* edges processed later point back to it.
C16_VisitedVertexIsFrozen ==
  [][ InLoop =>
        \A u \in Ids :
          v[u].visited = 1 =>
            /\ v'[u].visited = 1
            /\ v'[u].dist = v[u].dist
            /\ v'[u].prev = v[u].prev
            /\ v'[u].q_idx = 0
            /\ \A i \in 1..tail' : q'[i] # u
    ]_vars

\* vertex 2's edge back to the visited start has been passed and the start
\* is as it was
C16_Witness ==
  /\ pc = "relax"
  /\ s = 2 /\ ei = 2
  /\ v[2].edges[1].dest = 1
  /\ v[1].visited = 1 /\ v[1].dist = 0 /\ v[1].prev = 0 /\ v[1].q_idx = 0

---------------------------------------------------------------------------
(* C17 *)

\* the vertex has been discovered
Known(u) == v[u].prev # 0 \/ u = start

\* the destination of the edge the inner loop is at
Dest == v[s].edges[ei].dest

\* the pass of the inner loop that is about to run takes the branch of
\* line 366: heapify_up on the q_idx of a vertex that is in the heap
DecreaseKeyStep ==
  /\ pc = "relax"
  /\ Improves(Cur, v[s].edges[ei], Candidate(Cur, v[s].edges[ei]))
  /\ v[Dest].q_idx # 0

\* C17: a step that changes the dist of a discovered vertex strictly lowers
\* it, its prev changes only in such a step, decrease-key runs only right
\* after such a lowering, and after a decrease-key the vertex is not
\* greater than either of its children, so that no sifting down is needed.
C17_DecreaseKeyOnlyLowersAndNeedsNoSiftDown ==
  /\ [][ InLoop =>
           \A u \in Ids :
             (Known(u) /\ (v'[u].dist # v[u].dist \/ v'[u].prev # v[u].prev))
                => v'[u].dist < v[u].dist ]_vars
  /\ [][ DecreaseKeyStep =>
           /\ v[Dest].dist # 0
           /\ v'[Dest].dist < v[Dest].dist
           /\ \A c \in {2 * v'[Dest].q_idx, 2 * v'[Dest].q_idx + 1} :
                c <= tail' => ~RefGt(v'[Dest].dist, v'[q'[c]].dist) ]_vars

---------------------------------------------------------------------------
(* C18 *)

\* C18: between the heap operations of a dijkstras run every slot i of
\* 1..tail holds a vertex id other than 0 whose q_idx is i, every slot above
\* tail holds 0, and a vertex whose q_idx is 0 is in no slot of 1..tail.
C18_PositionIndexAgreesWithHeap ==
  InRun =>
    /\ \A i \in 1..tail : q[i] # 0 /\ v[q[i]].q_idx = i
    /\ \A i \in QIdx : i > tail => q[i] = 0
    /\ \A u \in Ids : v[u].q_idx = 0 => \A i \in 1..tail : q[i] # u

\* the README's graph after the start is processed: 2, 3 and 4 were pushed
\* and the two later pushes each sifted up
C18_Witness ==
  /\ pc = "loop"
  /\ tail = 3
  /\ q[1] = 4 /\ q[2] = 2 /\ q[3] = 3
  /\ v[4].q_idx = 1 /\ v[2].q_idx = 2 /\ v[3].q_idx = 3

---------------------------------------------------------------------------
(* C19 *)

\* the pairs <<source, destination>> of the edge records of the request
ReqArcs(in) == { <<e[1], e[2]>> : e \in ReqEdges(in) }

\* C19: a path rendered for a request with start # target begins with the
\* start, ends with the target, and each two consecutive vertices of it are
\* the source and the destination of an edge of the request.
C19_RenderedPathFollowsEdges ==
  (pc = "close" /\ out[1].kind = "path" /\ ReqStart(inp) # ReqEnd(inp)) =>
    LET vs == out[1].verts
    IN /\ Len(vs) >= 2
       /\ vs[1] = ReqStart(inp)
       /\ vs[Len(vs)] = ReqEnd(inp)
       /\ \A k \in 1..(Len(vs) - 1) : <<vs[k], vs[k + 1]>> \in ReqArcs(inp)

\* the README's graph asked from 1 to 5 is answered with the path over
\* three edges
C19_Witness ==
  /\ pc = "close"
  /\ inp = ClassicStream(5)
  /\ out = << PathResponse(<<1, 3, 2, 5>>, 20) >>

---------------------------------------------------------------------------
(* C20 *)

\* the vertices the request names
ReqVerts(in) ==
  {ReqStart(in), ReqEnd(in)} \cup { a[1] : a \in ReqArcs(in) }
    \cup { a[2] : a \in ReqArcs(in) }

\* the vertices met by following prev from u, u first, for at most fuel
\* steps
RECURSIVE PrevWalk(_, _, _)
PrevWalk(vv, u, fuel) ==
  IF vv[u].prev = 0 \/ fuel = 0 THEN <<u>>
  ELSE <<u>> \o PrevWalk(vv, vv[u].prev, fuel - 1)

\* C20: in every state of a dijkstras run the prev of the start is 0 and
\* following prev from a discovered vertex meets no vertex twice and ends
\* at the start after fewer steps than the request has vertices; the walk
\* of gen_path never runs past its buffer.
C20_PrevLinksAreAcyclic ==
  /\ InRun =>
       /\ v[start].prev = 0
       /\ \A u \in Ids :
            Known(u) =>
              LET w == PrevWalk(v, u, MaxId + 1)
              IN /\ \A a, b \in 1..Len(w) : w[a] = w[b] => a = b
                 /\ w[Len(w)] = start
                 /\ Len(w) - 1 < Cardinality(ReqVerts(inp))
  /\ path.kind # "overrun"

\* the README's graph asked from 1 to 5, as dijkstras returns: from 5 the
\* prev links lead over 2 and 3 to the start
C20_Witness ==
  /\ pc = "gen_path"
  /\ PrevWalk(v, 5, MaxId + 1) = <<5, 2, 3, 1>>
  /\ v[1].prev = 0

---------------------------------------------------------------------------
(* C21 *)

\* the vertex is or was in the heap
Entered(u) == v[u].q_idx # 0 \/ v[u].visited = 1

\* C21: in every state of a dijkstras run a vertex has dist 0 exactly when
\* it is the start or has not been discovered; no discovered vertex other
\* than the start holds 0.
C21_ZeroDistIsStartOrUndiscovered ==
  InRun =>
    \A u \in Ids :
      /\ v[u].dist = 0 <=> (u = start \/ ~Entered(u))
      /\ (Entered(u) /\ u # start) => (v[u].dist >= 1 /\ Known(u))

\* a vertex is in the heap at distance 65536, the least value whose low 16
\* bits are 0
C21_Witness ==
  /\ pc = "loop"
  /\ \E u \in Ids : v[u].q_idx # 0 /\ v[u].dist = UINT16_MOD

---------------------------------------------------------------------------
(* C22 *)

\* the edge records the stream declares, in frame order
ReqRecs(in) ==
  [k \in 1..in[3] |-> <<in[1 + 3 * k], in[2 + 3 * k], in[3 + 3 * k]>>]

\* the (dest, cost) pairs of the records whose source is u, in frame order
RECURSIVE OutgoingOf(_, _)
OutgoingOf(recs, u) ==
  IF recs = <<>> THEN <<>>
  ELSE (IF Head(recs)[1] = u
        THEN << [dest |-> Head(recs)[2], cost |-> Head(recs)[3]] >>
        ELSE <<>>) \o OutgoingOf(Tail(recs), u)

\* the edge nodes in all the lists
RECURSIVE NodesUpTo(_, _)
NodesUpTo(vv, i) ==
  IF i < 0 THEN 0 ELSE Len(vv[i].edges) + NodesUpTo(vv, i - 1)

\* C22: after load_map succeeds on a frame that declares N records, the
\* lists hold N edge nodes in all, and the list of each vertex is the
\* sequence of the (dest, cost) pairs of the declared records with that
\* source, in frame order, parallel edges kept.
C22_EdgeListsAreTheDeclaredRecords ==
  (rc = 0 /\ (pc = "dijkstras" \/ InRun)) =>
    /\ NodesUpTo(v, MaxId) = inp[3]
    /\ \A u \in VIds : v[u].edges = OutgoingOf(ReqRecs(inp), u)

\* load_map has returned 0 on the frame with the two parallel edges 2->4,
\* and on a stream that carries a record more than it declares
C22_Witness ==
  /\ pc = "dijkstras"
  /\ rc = 0
  /\ \/ /\ Len(inp) = 15
        /\ v[2].edges = << [dest |-> 4, cost |-> 65535], [dest |-> 4, cost |-> 1] >>
     \/ /\ Len(inp) > 3 + 3 * inp[3]
        /\ v[1].edges = << [dest |-> 2, cost |-> 5] >>

---------------------------------------------------------------------------
(* C23 *)

\* the traversal fields of the two vertex records are the same
SameTraversal(r1, r2) ==
  /\ r1.dist = r2.dist
  /\ r1.visited = r2.visited
  /\ r1.prev = r2.prev
  /\ r1.q_idx = r2.q_idx

\* C23: load_map, whether it returns 0 or -1, leaves the dist, visited,
\* prev and q_idx of every vertex as they were before the call: as the
\* memset of shortest_path left them, and, called on an array that holds
\* other values, as that array had them.
C23_LoadMapLeavesTraversalFields ==
  /\ [][ pc = "shortest_path" =>
           \A i \in VIds : SameTraversal(v'[i], Memset(v)[i]) ]_vars
  /\ [](pc = "shortest_path" =>
          \A g \in Garbage :
            LET r == load_map(GarbageV(g), inp, 0, 0)
            IN \A i \in VIds :
                 /\ SameTraversal(r.v[i], GarbageV(g)[i])
                 /\ Len(r.v[i].edges) >= Len(GarbageV(g)[i].edges))

\* load_map has failed in the middle of a record: the last node of a list
\* has its dest and not its cost
C23_Witness ==
  /\ pc = "cleanup"
  /\ rc = -1
  /\ \E i \in Ids :
       /\ v[i].edges # <<>>
       /\ v[i].edges[Len(v[i].edges)].dest # 0
       /\ v[i].edges[Len(v[i].edges)].cost = 0
       /\ SameTraversal(v[i], ZeroVertex)

---------------------------------------------------------------------------
(* C24 *)

\* the calls of malloc load_map makes on the stream: one for each declared
\* record whose source field arrived
NodesAllocated(in) ==
  IF Len(in) < 3 THEN 0
  ELSE Cardinality({ n \in 0..(in[3] - 1) : Len(in) >= 4 + 3 * n })

Released(vv) == \E g \in Garbage : vv = GarbageV(g)

\* C24: on every way out of shortest_path the cleanup loop is passed, every
\* edge node load_map allocated is then in one of the lists the loop walks
\* and frees, and once shortest_path has returned the vertex array and the
\* nodes are released storage.
C24_GraphStorageReleasedOnEveryExit ==
  /\ [](pc = "cleanup" => NodesUpTo(v, MaxId) = NodesAllocated(inp))
  /\ [][ /\ pc' = "main" => pc = "cleanup"
         /\ pc = "shortest_path" => pc' \in {"dijkstras", "cleanup"}
         /\ pc = "gen_path" => pc' = "cleanup" ]_vars
  /\ [](pc \in {"main", "close", "exited"} => Released(v))

\* shortest_path has returned after load_map failed on a record whose node
\* was allocated and whose cost did not arrive
C24_Witness ==
  /\ pc = "main"
  /\ rc = -1
  /\ Len(inp) > 3 /\ Len(inp) % 3 = 2
  /\ NodesAllocated(inp) >= 1
  /\ Released(v)

---------------------------------------------------------------------------
(* C25 *)

\* the stream with its records k and k + 1 exchanged
SwapAt(in, k) ==
  [j \in 1..Len(in) |->
     IF j \in (1 + 3 * k)..(3 + 3 * k) THEN in[j + 3]
     ELSE IF j \in (4 + 3 * k)..(6 + 3 * k) THEN in[j - 3]
     ELSE in[j]]

\* a connection served alone up to the return of dijkstras
RECURSIVE RunToReturn(_)
RunToReturn(st) ==
  IF st.pc \in {"gen_path", "cleanup"} THEN st ELSE RunToReturn(ProgramStep(st))

\* what dijkstras returns on the stream
DijkstrasReturns(stream) == RunToReturn(AcceptF(Listening("zero"), stream)).dist

\* C25: the order of the edge records does not matter: dijkstras returns
\* the same distance on the frame and on the frame with two neighbouring
\* records exchanged.
C25_RecordOrderDoesNotMatter ==
  pc = "gen_path" =>
    \A k \in 1..(inp[3] - 1) : DijkstrasReturns(SwapAt(inp, k)) = dist

---------------------------------------------------------------------------
(* C26 *)

\* the sentinel-aware order on distances as they are: a is less than b
RefLt(a, b) == a # 0 /\ (a < b \/ b = 0)

\* the tentative distances of the vertices in the heap
HeapDists == { v[q[i]].dist : i \in 1..tail }

\* C26: for every two tentative distances that are in the heap together,
\* values of 65536 and above included, lt and gt give what the
\* sentinel-aware comparison of the full values gives, and a distance that
\* is not 0 is not taken for infinity.
C26_ComparatorsSeeFullDistances ==
  InLoop =>
    \A a \in HeapDists :
      /\ a # 0 => U16(a) # 0
      /\ \A b \in HeapDists :
           /\ lt(a, b) <=> RefLt(a, b)
           /\ gt(a, b) <=> RefGt(a, b)

---------------------------------------------------------------------------
(* C27 *)

\* the indices of the array q
QSlots == 0..(VERT_IDX_MAX - 1)

\* C27: during a dijkstras run tail is at most the number of vertices of
\* the request, so at most VERT_IDX_MAX - 1, and every q_idx is at most
\* tail; and at no position a uint16_t can hold does heapify_down read a
\* child slot outside q.
C27_HeapIndicesStayInsideQ ==
  /\ InRun =>
       /\ tail <= Cardinality(ReqVerts(inp))
       /\ tail \in QSlots
       /\ \A u \in Ids : v[u].q_idx <= tail
  /\ (pc = "accept" /\ nconn = 0) =>
       \A i \in 0..(UINT16_MOD - 1) : ChildSlotsRead(i) \subseteq QSlots

\* a pop has sifted down in a heap of the README's graph, and at the last
\* position with children inside q both are read, one position on none
C27_Witness ==
  /\ InLoop
  /\ tail = 2
  /\ Cardinality({ u \in Ids : v[u].visited = 1 }) = 2
  /\ Len(inp) = 30
  /\ ChildSlotsRead(VERT_IDX_MAX \div 2 - 1) = {VERT_IDX_MAX - 2, VERT_IDX_MAX - 1}
  /\ ChildSlotsRead(VERT_IDX_MAX \div 2) = {}

---------------------------------------------------------------------------
(* C28 *)

\* the vertices that are discovered and not yet visited
Pending == { u \in Ids : Known(u) /\ v[u].visited = 0 }

\* C28: whenever the guard of the main loop is evaluated, q[1] is 0 exactly
\* when tail is 0 and tail is the number of vertices discovered and not yet
\* visited; and the pop of the loop body is made on a heap that is not
\* empty and takes one vertex out of it.
C28_LoopGuardMeansHeapNonEmpty ==
  /\ [](pc = "loop" =>
          /\ q[1] = 0 <=> tail = 0
          /\ tail = Cardinality(Pending))
  /\ [][ (pc = "loop" /\ pc' \in {"loop", "relax"}) =>
           /\ tail >= 1
           /\ tail' = tail - 1 ]_vars

\* the guard is evaluated on the heap that the pops have emptied: the
\* target of the request is not reached
C28_Witness ==
  /\ pc = "loop"
  /\ q[1] = 0 /\ tail = 0
  /\ Pending = {}
  /\ Cardinality({ u \in Ids : v[u].visited = 1 }) >= 3

====
